---- MODULE Spec2Model ----
(***************************************************************************)
(* A model of src/src/model/EventMessage.ts (mojaloop event-sdk): the      *)
(* type/action variants, EventTraceMetadata with its constructor and       *)
(* finish(), EventMetadata with its factories, and the id generators.      *)
(*                                                                         *)
(* Conventions.                                                            *)
(*  - A JavaScript string is a sequence of one-character strings, so that  *)
(*    the regular expressions and the hex / date renderings are computed   *)
(*    character by character.                                              *)
(*  - An optional value is a record with a `def` flag (undefined when      *)
(*    FALSE); a `string | Date | undefined` argument is a record tagged by *)
(*    `kind`.  All records of one sort have the same fields.               *)
(*  - A Date's time value is kept as ECMAScript's Day(t) and               *)
(*    TimeWithinDay(t) (t = day * 86400000 + ms), since the checker's      *)
(*    integers are 32 bits wide.  An Invalid Date (time value NaN) has     *)
(*    valid = FALSE.                                                       *)
(*  - Arguments range over the values of the declared TypeScript parameter *)
(*    types.  For the type/action variants the parameter type is the whole *)
(*    enforcement, so the compiler's assignability check is modelled as    *)
(*    the guard of the construction (see TypeChecks).                      *)
(***************************************************************************)
EXTENDS Integers, Sequences, FiniteSets, TLC

VARIABLES
    trace,      \* <<>> or <<o>>: the EventTraceMetadata instance last constructed
    tick,       \* the system clock, in steps from ClockStart
    lastCall,   \* the last call on EventTraceMetadata: operation, arguments, outcome,
                \* and the clock when it completed normally
    generated,  \* the value last returned by newTraceId() / newSpanId()
    variant,    \* <<>> or <<v>>: the type/action variant last constructed
    event,      \* <<>> or <<m>>: the EventMetadata last constructed
    lastEvent   \* the last call on the variants / EventMetadata: arguments, outcome

vars == <<trace, tick, lastCall, generated, variant, event, lastEvent>>
traceVars == <<trace, tick, lastCall>>
eventVars == <<variant, event, lastEvent>>

(***************************************************************************)
(* Bounds of the model.                                                    *)
(***************************************************************************)
MaxTick == 2
RandomSamples == 32

(***************************************************************************)
(* Strings, optional values.                                               *)
(***************************************************************************)
NoString == [def |-> FALSE, s |-> <<>>]
Str(s) == [def |-> TRUE, s |-> s]
NoNumber == [def |-> FALSE, n |-> 0]
Num(n) == [def |-> TRUE, n |-> n]

\* JavaScript truthiness of an optional string: undefined and "" are falsy.
Truthy(x) == x.def /\ x.s # <<>>

Repeat(c, n) == [i \in 1..n |-> c]

(***************************************************************************)
(* The identifier patterns and the generators.                             *)
(***************************************************************************)
TRACE_ID_LEN == 32
SPAN_ID_LEN == 16
TRACE_ID_BYTES == 16
SPAN_ID_BYTES == 8

HexClass == {"0", "1", "2", "3", "4", "5", "6", "7", "8", "9", "a", "b", "c", "d", "e", "f"}

\* /^[0-9abcdef]{n}$/.test(s): no flags, so $ matches at the end of input only.
RegexTest(n, s) == Len(s) = n /\ \A i \in 1..n : s[i] \in HexClass

TRACE_ID_REGEX(s) == RegexTest(TRACE_ID_LEN, s)

SPAN_ID_REGEX(s) == RegexTest(SPAN_ID_LEN, s)

HexDigits == <<"0", "1", "2", "3", "4", "5", "6", "7", "8", "9", "a", "b", "c", "d", "e", "f">>

\* A hex rendering that drops a byte's leading zero digit (as Number#toString(16) does).
ToHexUnpadded(bytes) ==
    LET F[i \in 0..Len(bytes)] ==
            IF i = 0 THEN <<>>
            ELSE F[i - 1] \o (IF bytes[i] < 16 THEN <<HexDigits[bytes[i] + 1]>>
                              ELSE <<HexDigits[(bytes[i] \div 16) + 1], HexDigits[(bytes[i] % 16) + 1]>>)
    IN F[Len(bytes)]

\* Buffer#toString('hex'): two lower-case hex digits per byte, high nibble first.
ToHex(bytes) ==
    [i \in 1..(2 * Len(bytes)) |->
        LET b == bytes[(i + 1) \div 2]
        IN IF i % 2 = 1 THEN HexDigits[(b \div 16) + 1] ELSE HexDigits[(b % 16) + 1]]

\* Outcomes of crypto.randomBytes(n) the model draws: the buffers of n
\* consecutive byte values starting at 8 * a, which between them hold every
\* byte value from 0 to 255 (n is 8 or 16).
RandomBytes(n) == {[i \in 1..n |-> (8 * a + i - 1) % 256] : a \in 0..(RandomSamples - 1)}

newTraceId(bytes) == ToHex(bytes)

newSpanId(bytes) == ToHex(bytes)

(***************************************************************************)
(* Dates.                                                                  *)
(***************************************************************************)
TsUndefined == [kind |-> "undefined", s |-> <<>>, valid |-> FALSE, day |-> 0, ms |-> 0]
TsString(s) == [kind |-> "string", s |-> s, valid |-> FALSE, day |-> 0, ms |-> 0]
TsDate(day, ms) == [kind |-> "date", s |-> <<>>, valid |-> TRUE, day |-> day, ms |-> ms]
InvalidDate == [kind |-> "date", s |-> <<>>, valid |-> FALSE, day |-> 0, ms |-> 0]

Digits == <<"0", "1", "2", "3", "4", "5", "6", "7", "8", "9">>

Pow10(k) == IF k = 0 THEN 1 ELSE IF k = 1 THEN 10 ELSE IF k = 2 THEN 100
            ELSE IF k = 3 THEN 1000 ELSE IF k = 4 THEN 10000 ELSE 100000

\* n in decimal, left-padded with zeros to w digits.
Pad(n, w) == [i \in 1..w |-> Digits[((n \div Pow10(w - i)) % 10) + 1]]

\* Year, month and day of month of a day number (days since 1970-01-01),
\* proleptic Gregorian calendar, as ECMAScript's YearFromTime / MonthFromTime /
\* DateFromTime.
Civil(day) ==
    LET z == day + 719468
        era == z \div 146097
        doe == z - era * 146097
        yoe == (doe - (doe \div 1460) + (doe \div 36524) - (doe \div 146096)) \div 365
        doy == doe - (365 * yoe + (yoe \div 4) - (yoe \div 100))
        mp == (5 * doy + 2) \div 153
        d == doy - ((153 * mp + 2) \div 5) + 1
        m == IF mp < 10 THEN mp + 3 ELSE mp - 9
        y == yoe + era * 400 + (IF m <= 2 THEN 1 ELSE 0)
    IN [y |-> y, m |-> m, d |-> d]

YearString(y) ==
    IF 0 <= y /\ y <= 9999 THEN Pad(y, 4)
    ELSE IF y < 0 THEN <<"-">> \o Pad(0 - y, 6)
    ELSE <<"+">> \o Pad(y, 6)

\* Date.prototype.toISOString of a valid Date: YYYY-MM-DDTHH:mm:ss.sssZ in UTC
\* (an Invalid Date makes it throw a RangeError: see the callers).
ToISOString(d) ==
    LET c == Civil(d.day)
    IN YearString(c.y) \o <<"-">> \o Pad(c.m, 2) \o <<"-">> \o Pad(c.d, 2) \o <<"T">>
       \o Pad(d.ms \div 3600000, 2) \o <<":">> \o Pad((d.ms \div 60000) % 60, 2) \o <<":">>
       \o Pad((d.ms \div 1000) % 60, 2) \o <<".">> \o Pad(d.ms % 1000, 3) \o <<"Z">>

\* The clock starts one millisecond before midnight UTC of 2024-01-15 and
\* advances one millisecond per tick.
ClockStart == [day |-> 19737, ms |-> 86399999]

\* new Date(): the current time.
Now(k) ==
    LET t == ClockStart.ms + k
    IN TsDate(ClockStart.day + (t \div 86400000), t % 86400000)

(***************************************************************************)
(* EventTraceMetadata.                                                     *)
(***************************************************************************)
\* Field initialisers that stamp finishTimestamp as they stamp startTimestamp.
InitialTraceMetadataFinished(now) ==
    [service |-> <<>>, traceId |-> <<>>, spanId |-> <<>>, parentSpanId |-> NoString,
     sampled |-> NoNumber, flags |-> NoNumber,
     startTimestamp |-> Str(ToISOString(now)), finishTimestamp |-> Str(ToISOString(now))]

\* The instance as the field initialisers leave it, before the constructor body
\* runs: startTimestamp = (new Date()).toISOString(), everything else unset.
InitialTraceMetadata(now) ==
    [service |-> <<>>, traceId |-> <<>>, spanId |-> <<>>, parentSpanId |-> NoString,
     sampled |-> NoNumber, flags |-> NoNumber,
     startTimestamp |-> Str(ToISOString(now)), finishTimestamp |-> NoString]

\* A service that falls back to a default when it is empty.
ServiceDefaulted(this, service) ==
    [this EXCEPT !.service = IF service = <<>> THEN <<"u", "n", "k", "n", "o", "w", "n">> ELSE service]

\* this.service = service
ServiceAssigned(this, service) == [this EXCEPT !.service = service]

\* parentSpanId && !(SPAN_ID_REGEX.test(parentSpanId))
ParentSpanIdRejected(parentSpanId) == Truthy(parentSpanId) /\ ~SPAN_ID_REGEX(parentSpanId.s)

\* A constructor that keeps the default start timestamp whatever was supplied.
StartTimestampIgnored(this, startTimestamp) == [threw |-> "none", this |-> this]

\* The start timestamp supplied to the constructor: a Date is rendered, a
\* truthy string is taken as it is, anything else leaves the initialiser's value.
StartTimestampAssigned(this, startTimestamp) ==
    IF startTimestamp.kind = "date"
    THEN IF startTimestamp.valid
         THEN [threw |-> "none",
               this |-> [this EXCEPT !.startTimestamp = Str(ToISOString(startTimestamp))]]
         ELSE [threw |-> "RangeError", this |-> this]
    ELSE IF startTimestamp.kind = "string" /\ startTimestamp.s # <<>>
         THEN [threw |-> "none", this |-> [this EXCEPT !.startTimestamp = Str(startTimestamp.s)]]
         ELSE [threw |-> "none", this |-> this]

\* new EventTraceMetadata(service, traceId, spanId, parentSpanId, sampled, flags,
\* startTimestamp) at time `now`: the completion (normal, or the error thrown)
\* and `this` as the body left it.
EventTraceMetadataNew(service, traceId, spanId, parentSpanId, sampled, flags, startTimestamp, now) ==
    LET t0 == InitialTraceMetadata(now)
        t1 == ServiceAssigned(t0, service)
        t2 == [t1 EXCEPT !.traceId = traceId]
        t3 == [t2 EXCEPT !.spanId = spanId]
        t4 == [t3 EXCEPT !.parentSpanId = parentSpanId, !.sampled = sampled, !.flags = flags]
    IN IF ~TRACE_ID_REGEX(traceId) THEN [threw |-> "Error", this |-> t1]
       ELSE IF ~SPAN_ID_REGEX(spanId) THEN [threw |-> "Error", this |-> t2]
       ELSE IF ParentSpanIdRejected(parentSpanId) THEN [threw |-> "Error", this |-> t3]
       ELSE StartTimestampAssigned(t4, startTimestamp)

\* A finish that keeps a finish timestamp already set.
finishOnce(this, finishTimestamp, now) ==
    IF this.finishTimestamp.def THEN [threw |-> "none", this |-> this]
    ELSE IF finishTimestamp.kind = "date"
    THEN IF finishTimestamp.valid
         THEN [threw |-> "none",
               this |-> [this EXCEPT !.finishTimestamp = Str(ToISOString(finishTimestamp))]]
         ELSE [threw |-> "RangeError", this |-> this]
    ELSE IF finishTimestamp.kind = "undefined" \/ finishTimestamp.s = <<>>
         THEN [threw |-> "none", this |-> [this EXCEPT !.finishTimestamp = Str(ToISOString(now))]]
         ELSE [threw |-> "none", this |-> [this EXCEPT !.finishTimestamp = Str(finishTimestamp.s)]]

\* A finish that also restarts the span.
finishAndRestart(this, finishTimestamp, now) ==
    LET r == finishOnce([this EXCEPT !.finishTimestamp = NoString], finishTimestamp, now)
    IN [threw |-> r.threw,
        this |-> IF r.threw = "none"
                 THEN [r.this EXCEPT !.startTimestamp = r.this.finishTimestamp]
                 ELSE this]

\* this.finish(finishTimestamp) at time `now`.
finish(this, finishTimestamp, now) ==
    IF finishTimestamp.kind = "date"
    THEN IF finishTimestamp.valid
         THEN [threw |-> "none",
               this |-> [this EXCEPT !.finishTimestamp = Str(ToISOString(finishTimestamp))]]
         ELSE [threw |-> "RangeError", this |-> this]
    ELSE IF finishTimestamp.kind = "undefined" \/ finishTimestamp.s = <<>>
         THEN [threw |-> "none", this |-> [this EXCEPT !.finishTimestamp = Str(ToISOString(now))]]
         ELSE [threw |-> "none", this |-> [this EXCEPT !.finishTimestamp = Str(finishTimestamp.s)]]

(***************************************************************************)
(* The arguments the callers draw.                                         *)
(***************************************************************************)
IsoSample == <<"2", "0", "2", "4", "-", "0", "1", "-", "0", "1", "T", "0", "0", ":", "0", "0", ":", "0", "0", ".", "0", "0", "0", "Z">>
GarbageSample == <<"n", "o", "t", "-", "a", "-", "d", "a", "t", "e">>

ValidTraceId == [i \in 1..32 |-> HexDigits[((i - 1) % 16) + 1]]
ValidSpanId == [i \in 1..16 |-> HexDigits[((i - 1) % 16) + 1]]
ValidParentSpanId == [i \in 1..16 |-> HexDigits[17 - i]]

ServiceSample == <<"s", "v", "c", "-", "a">>

Services == {<<>>, ServiceSample}

\* A valid trace id, one a character short, one a character long, one that is
\* not hex, one with an upper-case digit.
TraceIdInputs ==
    {ValidTraceId,
     SubSeq(ValidTraceId, 1, 31),
     ValidTraceId \o <<"0">>,
     <<"z", "z">> \o Repeat("0", 30),
     [ValidTraceId EXCEPT ![11] = "A"]}

\* A valid span id, one a character short, one a character long, one with an
\* upper-case digit.
SpanIdInputs ==
    {ValidSpanId,
     SubSeq(ValidSpanId, 1, 15),
     ValidSpanId \o <<"0">>,
     [ValidSpanId EXCEPT ![16] = "F"]}

\* No parent, the empty string, a valid span id, one a character long, one
\* that is not hex.
ParentSpanIdInputs ==
    {NoString,
     Str(<<>>),
     Str(ValidParentSpanId),
     Str(ValidParentSpanId \o <<"0">>),
     Str(Repeat("g", 16))}

\* sampled and flags, both optional numbers.
SampledFlagsInputs == {<<NoNumber, NoNumber>>, <<Num(1), Num(0)>>}

TimestampInputs ==
    {TsUndefined,
     TsString(<<>>),
     TsString(IsoSample),
     TsString(GarbageSample),
     TsDate(11016, 37800123),
     InvalidDate}

\* The service, sampled / flags and start timestamp drawn with the given ids.
\* The constructor throws on an id before it reads sampled, flags or the start
\* timestamp, so a call whose ids it rejects is drawn with one service, no
\* sampled / flags, and a start timestamp that is omitted or an invalid Date.
OtherArguments(traceId, spanId, parentSpanId) ==
    IF TRACE_ID_REGEX(traceId) /\ SPAN_ID_REGEX(spanId) /\ ~ParentSpanIdRejected(parentSpanId)
    THEN Services \X SampledFlagsInputs \X TimestampInputs
    ELSE {ServiceSample} \X {<<NoNumber, NoNumber>>} \X {TsUndefined, InvalidDate}

Callers == {"c1", "c2"}

NoCall ==
    [op |-> "none", threw |-> "none", caller |-> "c1", service |-> <<>>, traceId |-> <<>>,
     spanId |-> <<>>,
     parentSpanId |-> NoString, arg |-> TsUndefined, at |-> 0]

(***************************************************************************)
(* The operations on EventTraceMetadata.                                   *)
(***************************************************************************)
\* The model follows one instance through its life: new EventTraceMetadata(...)
\* is evaluated until it completes normally (a call that throws produces no
\* instance), and from then on the instance is shared by the callers.
Construct(service, traceId, spanId, parentSpanId, sampled, flags, startTimestamp) ==
    LET r == EventTraceMetadataNew(service, traceId, spanId, parentSpanId, sampled, flags,
                                   startTimestamp, Now(tick))
    IN /\ trace = <<>>
       /\ trace' = IF r.threw = "none" THEN <<r.this>> ELSE trace
       /\ lastCall' = [NoCall EXCEPT !.op = "new", !.threw = r.threw,
                                     !.service = service, !.traceId = traceId,
                                     !.spanId = spanId, !.parentSpanId = parentSpanId,
                                     !.arg = startTimestamp,
                                     !.at = IF r.threw = "none" THEN tick ELSE 0]
       /\ UNCHANGED tick

NewEventTraceMetadata ==
    \E traceId \in TraceIdInputs, spanId \in SpanIdInputs, parentSpanId \in ParentSpanIdInputs :
        \E a \in OtherArguments(traceId, spanId, parentSpanId) :
            /\ Construct(a[1], traceId, spanId, parentSpanId, a[2][1], a[2][2], a[3])
            /\ UNCHANGED <<generated, eventVars>>

\* A caller holding the instance calls finish on it.
Finish ==
    \E caller \in Callers, finishTimestamp \in TimestampInputs :
        /\ trace # <<>>
        /\ LET r == finish(trace[1], finishTimestamp, Now(tick))
           IN /\ trace' = <<r.this>>
              /\ lastCall' = [NoCall EXCEPT !.op = "finish", !.threw = r.threw, !.caller = caller,
                                            !.arg = finishTimestamp,
                                            !.at = IF r.threw = "none" THEN tick ELSE 0]
        /\ UNCHANGED <<tick, generated, eventVars>>

\* Time passes.
Tick ==
    /\ tick < MaxTick
    /\ tick' = tick + 1
    /\ UNCHANGED <<trace, lastCall, generated, eventVars>>

(***************************************************************************)
(* The ids generated, and an instance constructed from them.               *)
(***************************************************************************)
NewTraceId ==
    \E bytes \in RandomBytes(TRACE_ID_BYTES) :
        /\ generated' = [kind |-> "traceId", id |-> newTraceId(bytes)]
        /\ UNCHANGED <<traceVars, eventVars>>

NewSpanId ==
    \E bytes \in RandomBytes(SPAN_ID_BYTES) :
        /\ generated' = [kind |-> "spanId", id |-> newSpanId(bytes)]
        /\ UNCHANGED <<traceVars, eventVars>>

\* The id last generated is passed to the constructor: a trace id as traceId,
\* a span id as spanId and as parentSpanId.
NewEventTraceMetadataFromGenerated ==
    /\ generated.kind # "none"
    /\ Construct(ServiceSample,
                 IF generated.kind = "traceId" THEN generated.id ELSE ValidTraceId,
                 IF generated.kind = "spanId" THEN generated.id ELSE ValidSpanId,
                 IF generated.kind = "spanId" THEN Str(generated.id) ELSE NoString,
                 NoNumber, NoNumber, TsUndefined)
    /\ UNCHANGED <<generated, eventVars>>

(***************************************************************************)
(* The type/action variants.                                               *)
(***************************************************************************)
LogEventAction == {"info", "debug", "verbose", "perf"}
AuditEventAction == {"default"}
ErrorEventAction == {"internal", "external"}
TraceEventAction == {"span"}
NullEventAction == {"undefined"}

EventAction ==
    AuditEventAction \cup ErrorEventAction \cup LogEventAction \cup TraceEventAction
        \cup NullEventAction

\* Every constructor declared with the base class's action type.
ActionParameterTypeOfBase(cls) == EventAction

\* The declared type of each constructor's `action` parameter.  The enums are
\* string enums, assignable only from their own members, so a value is
\* assignable to the parameter exactly when it is a member of one of the enums
\* of the union.
ActionParameterType(cls) ==
    CASE cls = "LogEventTypeAction" -> LogEventAction \cup NullEventAction
      [] cls = "AuditEventTypeAction" -> AuditEventAction \cup NullEventAction
      [] cls = "ErrorEventTypeAction" -> ErrorEventAction \cup NullEventAction
      [] cls = "TraceEventTypeAction" -> TraceEventAction \cup NullEventAction

\* The declared type of each factory's `action` parameter.
FactoryParameterType(cls) ==
    CASE cls = "LogEventTypeAction" -> LogEventAction
      [] cls = "AuditEventTypeAction" -> AuditEventAction
      [] cls = "ErrorEventTypeAction" -> ErrorEventAction
      [] cls = "TraceEventTypeAction" -> TraceEventAction

\* A getType that was not overridden: the base class's static type.
getTypeOfBase(typeAction) == "undefined"

\* getType(): each subclass returns its own static `type`.
getType(typeAction) ==
    CASE typeAction.cls = "LogEventTypeAction" -> "log"
      [] typeAction.cls = "AuditEventTypeAction" -> "audit"
      [] typeAction.cls = "ErrorEventTypeAction" -> "error"
      [] typeAction.cls = "TraceEventTypeAction" -> "trace"

\* new <cls>(action): the field initialiser sets NullEventAction.undefined, the
\* constructor body overwrites it with the argument.
EventTypeActionNew(cls, action) ==
    LET t0 == [cls |-> cls, action |-> "undefined"]
    IN [t0 EXCEPT !.action = action]

(***************************************************************************)
(* EventStateMetadata and EventMetadata.                                   *)
(***************************************************************************)
NoId == [def |-> FALSE, s |-> ""]
SomeId(s) == [def |-> TRUE, s |-> s]

EventStateMetadataNew(status, code, description) ==
    [status |-> status, code |-> code, description |-> description]

\* new EventMetadata(id, typeAction, createdAt, state, responseTo).
EventMetadataNew(id, typeAction, createdAt, state, responseTo) ==
    LET t0 == [id |-> id, type |-> getType(typeAction), action |-> typeAction.action,
               createdAt |-> <<>>, state |-> state, responseTo |-> NoId]
    IN IF createdAt.kind = "date"
       THEN IF createdAt.valid
            THEN [threw |-> "none",
                  this |-> [t0 EXCEPT !.createdAt = ToISOString(createdAt),
                                      !.responseTo = responseTo]]
            ELSE [threw |-> "RangeError", this |-> t0]
       ELSE [threw |-> "none",
             this |-> [t0 EXCEPT !.createdAt = createdAt.s, !.responseTo = responseTo]]

EventIds == {"e-1", "e-2"}

ResponseToInputs == {NoId, SomeId("e-0")}

StateInputs ==
    {EventStateMetadataNew("success", NoNumber, NoString),
     EventStateMetadataNew("failed", Num(500), Str(<<"e", "r", "r">>))}

\* createdAt as the factories declare it: a string.
CreatedAtStrings == {TsString(IsoSample), TsString(GarbageSample), TsString(<<>>)}

\* createdAt as the constructor declares it: a string or a Date.
CreatedAtInputs == CreatedAtStrings \cup {TsDate(11016, 37800123), InvalidDate}

StateSample == EventStateMetadataNew("success", NoNumber, NoString)

NoEventCall ==
    [op |-> "none", outcome |-> "ok", cls |-> "LogEventTypeAction", action |-> "undefined",
     id |-> "e-1", createdAt |-> TsString(IsoSample), state |-> StateSample, responseTo |-> NoId]

\* The id, createdAt, state and responseTo drawn with an action: a call the
\* compiler rejects for its action is drawn with one choice of the others.
OtherEventArguments(accepted, createdAts) ==
    IF accepted
    THEN EventIds \X createdAts \X StateInputs \X ResponseToInputs
    ELSE {<<"e-1", TsString(IsoSample), StateSample, NoId>>}

\* The model follows the construction of one EventMetadata: variants are
\* constructed, then the EventMetadata, which has no operation afterwards.
\*
\* new <cls>(action) by a caller.  A call whose argument is not assignable to
\* the parameter's declared type does not compile: no instance is produced and
\* the variant held is the one constructed before, if any.
VariantAfterNew(cls, action) ==
    IF action \in ActionParameterType(cls)
    THEN <<EventTypeActionNew(cls, action)>>
    ELSE variant

VariantCall(cls, action) ==
    [NoEventCall EXCEPT !.op = "variant",
                        !.outcome = IF action \in ActionParameterType(cls) THEN "ok" ELSE "type error",
                        !.cls = cls, !.action = action]

NewLogEventTypeAction ==
    \E action \in EventAction :
        /\ event = <<>>
        /\ variant' = VariantAfterNew("LogEventTypeAction", action)
        /\ lastEvent' = VariantCall("LogEventTypeAction", action)
        /\ UNCHANGED <<event, traceVars, generated>>

NewAuditEventTypeAction ==
    \E action \in EventAction :
        /\ event = <<>>
        /\ variant' = VariantAfterNew("AuditEventTypeAction", action)
        /\ lastEvent' = VariantCall("AuditEventTypeAction", action)
        /\ UNCHANGED <<event, traceVars, generated>>

NewErrorEventTypeAction ==
    \E action \in EventAction :
        /\ event = <<>>
        /\ variant' = VariantAfterNew("ErrorEventTypeAction", action)
        /\ lastEvent' = VariantCall("ErrorEventTypeAction", action)
        /\ UNCHANGED <<event, traceVars, generated>>

NewTraceEventTypeAction ==
    \E action \in EventAction :
        /\ event = <<>>
        /\ variant' = VariantAfterNew("TraceEventTypeAction", action)
        /\ lastEvent' = VariantCall("TraceEventTypeAction", action)
        /\ UNCHANGED <<event, traceVars, generated>>

\* The call new EventMetadata(id, typeAction, createdAt, state, responseTo) made
\* by `op`: the EventMetadata held afterwards, and the record of the call.
EventAfterNew(typeAction, a) ==
    LET r == EventMetadataNew(a[1], typeAction, a[2], a[3], a[4])
    IN IF r.threw = "none" THEN <<r.this>> ELSE event

EventCall(op, typeAction, a) ==
    LET r == EventMetadataNew(a[1], typeAction, a[2], a[3], a[4])
    IN [op |-> op, outcome |-> IF r.threw = "none" THEN "ok" ELSE r.threw,
        cls |-> typeAction.cls, action |-> typeAction.action, id |-> a[1],
        createdAt |-> a[2], state |-> a[3], responseTo |-> a[4]]

\* EventMetadata.log / .trace / .audit / .error: build the category's variant
\* from the action, then the EventMetadata.  A call whose action is not
\* assignable to the factory's declared parameter type does not compile.
EventAfterFactory(cls, action, a) ==
    IF action \in FactoryParameterType(cls)
    THEN EventAfterNew(EventTypeActionNew(cls, action), a)
    ELSE event

FactoryCall(op, cls, action, a) ==
    IF action \in FactoryParameterType(cls)
    THEN EventCall(op, EventTypeActionNew(cls, action), a)
    ELSE [NoEventCall EXCEPT !.op = op, !.outcome = "type error", !.cls = cls, !.action = action]

FactoryArguments(cls, action) ==
    OtherEventArguments(action \in FactoryParameterType(cls), CreatedAtStrings)

EventMetadataLog ==
    \E action \in EventAction :
        \E a \in FactoryArguments("LogEventTypeAction", action) :
            /\ event = <<>>
            /\ event' = EventAfterFactory("LogEventTypeAction", action, a)
            /\ lastEvent' = FactoryCall("log", "LogEventTypeAction", action, a)
            /\ UNCHANGED <<variant, traceVars, generated>>

EventMetadataTrace ==
    \E action \in EventAction :
        \E a \in FactoryArguments("TraceEventTypeAction", action) :
            /\ event = <<>>
            /\ event' = EventAfterFactory("TraceEventTypeAction", action, a)
            /\ lastEvent' = FactoryCall("trace", "TraceEventTypeAction", action, a)
            /\ UNCHANGED <<variant, traceVars, generated>>

EventMetadataAudit ==
    \E action \in EventAction :
        \E a \in FactoryArguments("AuditEventTypeAction", action) :
            /\ event = <<>>
            /\ event' = EventAfterFactory("AuditEventTypeAction", action, a)
            /\ lastEvent' = FactoryCall("audit", "AuditEventTypeAction", action, a)
            /\ UNCHANGED <<variant, traceVars, generated>>

EventMetadataError ==
    \E action \in EventAction :
        \E a \in FactoryArguments("ErrorEventTypeAction", action) :
            /\ event = <<>>
            /\ event' = EventAfterFactory("ErrorEventTypeAction", action, a)
            /\ lastEvent' = FactoryCall("error", "ErrorEventTypeAction", action, a)
            /\ UNCHANGED <<variant, traceVars, generated>>

\* EventMetadata.create with a variant the caller constructed.
EventMetadataCreate ==
    \E a \in OtherEventArguments(TRUE, CreatedAtStrings) :
        /\ event = <<>>
        /\ variant # <<>>
        /\ event' = EventAfterNew(variant[1], a)
        /\ lastEvent' = EventCall("create", variant[1], a)
        /\ UNCHANGED <<variant, traceVars, generated>>

\* new EventMetadata(...) by a caller, with a variant the caller constructed.
NewEventMetadata ==
    \E a \in OtherEventArguments(TRUE, CreatedAtInputs) :
        /\ event = <<>>
        /\ variant # <<>>
        /\ event' = EventAfterNew(variant[1], a)
        /\ lastEvent' = EventCall("new", variant[1], a)
        /\ UNCHANGED <<variant, traceVars, generated>>

InitTrace ==
    /\ trace = <<>>
    /\ tick = 0
    /\ lastCall = NoCall

InitOther ==
    /\ generated = [kind |-> "none", id |-> <<>>]
    /\ variant = <<>>
    /\ event = <<>>
    /\ lastEvent = NoEventCall

Init == InitTrace /\ InitOther

\* EventTraceMetadata: the constructor, finish, and the clock.
NextTrace == NewEventTraceMetadata \/ Finish \/ Tick

SpecTrace == Init /\ [][NextTrace]_vars

\* The id generators and the constructor given what they return.
NextIds == NewTraceId \/ NewSpanId \/ NewEventTraceMetadataFromGenerated

SpecIds == Init /\ [][NextIds]_vars

\* The type/action variants and EventMetadata.
NextEvent ==
    \/ NewLogEventTypeAction
    \/ NewAuditEventTypeAction
    \/ NewErrorEventTypeAction
    \/ NewTraceEventTypeAction
    \/ EventMetadataCreate
    \/ EventMetadataLog
    \/ EventMetadataTrace
    \/ EventMetadataAudit
    \/ EventMetadataError
    \/ NewEventMetadata

SpecEvent == Init /\ [][NextEvent]_vars

\* The whole module.  The variants and EventMetadata share no state with
\* EventTraceMetadata and the generators, so the claims are checked on the
\* parts (SpecTrace, SpecIds, SpecEvent).
Next == NextTrace \/ NextIds \/ NextEvent

Spec == Init /\ [][Next]_vars

(***************************************************************************)
(* Reading a timestamp back, independently of ToISOString: the shape       *)
(* YYYY-MM-DDTHH:mm:ss.sssZ and the instant it denotes.                    *)
(***************************************************************************)
IsDigit(c) == \E k \in 1..10 : Digits[k] = c

DigitValue(c) == (CHOOSE k \in 1..10 : Digits[k] = c) - 1

Number2(s, i) == 10 * DigitValue(s[i]) + DigitValue(s[i + 1])

IsLeapYear(y) == (y % 4 = 0 /\ y % 100 # 0) \/ y % 400 = 0

DaysInMonth(y, m) ==
    IF m = 2 THEN (IF IsLeapYear(y) THEN 29 ELSE 28)
    ELSE IF m \in {4, 6, 9, 11} THEN 30 ELSE 31

IsoYear(s) == 100 * Number2(s, 1) + Number2(s, 3)

IsIsoTimestamp(s) ==
    /\ Len(s) = 24
    /\ \A i \in {1, 2, 3, 4, 6, 7, 9, 10, 12, 13, 15, 16, 18, 19, 21, 22, 23} : IsDigit(s[i])
    /\ s[5] = "-" /\ s[8] = "-" /\ s[11] = "T" /\ s[14] = ":" /\ s[17] = ":"
    /\ s[20] = "." /\ s[24] = "Z"
    /\ Number2(s, 6) \in 1..12
    /\ Number2(s, 9) \in 1..DaysInMonth(IsoYear(s), Number2(s, 6))
    /\ Number2(s, 12) < 24 /\ Number2(s, 15) < 60 /\ Number2(s, 18) < 60

\* Days from 1970-01-01 to the first day of year y (y >= 1).
DaysBeforeYear(y) ==
    365 * (y - 1970) + ((y - 1) \div 4) - ((y - 1) \div 100) + ((y - 1) \div 400) - 477

DaysBeforeMonth(y, m) ==
    LET D[k \in 1..12] == IF k = 1 THEN 0 ELSE D[k - 1] + DaysInMonth(y, k - 1)
    IN D[m]

\* The day number and the millisecond of the day an ISO timestamp denotes.
IsoInstant(s) ==
    [day |-> DaysBeforeYear(IsoYear(s)) + DaysBeforeMonth(IsoYear(s), Number2(s, 6))
             + Number2(s, 9) - 1,
     ms |-> ((Number2(s, 12) * 60 + Number2(s, 15)) * 60 + Number2(s, 18)) * 1000
            + 100 * DigitValue(s[21]) + Number2(s, 22)]

\* s is the ISO-8601 rendering of the valid Date d.
Renders(s, d) == IsIsoTimestamp(s) /\ IsoInstant(s) = [day |-> d.day, ms |-> d.ms]

\* s is n characters, each one of 0-9 or a-f.
IsLowerHex(s, n) ==
    /\ Len(s) = n
    /\ \A i \in 1..Len(s) :
          s[i] \in {"0", "1", "2", "3", "4", "5", "6", "7", "8", "9", "a", "b", "c", "d", "e", "f"}

\* The ids of a constructor call are the ones the data model allows: 32 hex
\* characters, 16 hex characters and, when a parent span id is given, 16 hex
\* characters.
IdsValid(c) ==
    /\ IsLowerHex(c.traceId, 32)
    /\ IsLowerHex(c.spanId, 16)
    /\ (c.parentSpanId.def => IsLowerHex(c.parentSpanId.s, 16))

IsInvalidDate(a) == a.kind = "date" /\ ~a.valid

(***************************************************************************)
(* Claims about EventTraceMetadata (checked under SpecTrace).              *)
(***************************************************************************)
\* What a finish call that returns leaves in finishTimestamp: the supplied
\* non-empty string, the rendering of the supplied valid Date, or the time of
\* the call when the argument is omitted or is the empty string.
FinishSets(c, ts) ==
    /\ ts.def
    /\ (c.arg.kind = "string" /\ c.arg.s # <<>> => ts.s = c.arg.s)
    /\ (c.arg.kind = "date" => Renders(ts.s, c.arg))
    /\ (c.arg.kind = "undefined" \/ (c.arg.kind = "string" /\ c.arg.s = <<>>)
            => Renders(ts.s, Now(c.at)))

\* C2 (as stated): every instance has a traceId, a spanId and, when it has one,
\* a parentSpanId matching its pattern, and a constructor call with a traceId,
\* spanId or supplied parentSpanId that does not match raises an error and
\* produces no instance.
C2_IdsAlwaysMatch ==
    /\ trace # <<>> => IdsValid(trace[1])
    /\ lastCall.op = "new" /\ ~IdsValid(lastCall) => lastCall.threw = "Error" /\ trace = <<>>

\* C3 (as stated): after a finish call finishTimestamp is the supplied string
\* when a string was supplied, the rendering of the supplied Date when a Date
\* was supplied, and the time of the call when the argument was omitted.
C3_LastFinishDecides ==
    lastCall.op = "finish" =>
        /\ trace[1].finishTimestamp.def
        /\ (lastCall.arg.kind = "string" => trace[1].finishTimestamp.s = lastCall.arg.s)
        /\ (lastCall.arg.kind = "date" =>
                lastCall.arg.valid /\ Renders(trace[1].finishTimestamp.s, lastCall.arg))
        /\ (lastCall.arg.kind = "undefined" =>
                Renders(trace[1].finishTimestamp.s, Now(lastCall.at)))

\* C3 (amended): a finish call throws exactly when it is given an invalid Date,
\* and then leaves the instance as it was; after a finish call that returns,
\* whoever made it and whatever was there before, finishTimestamp is the
\* supplied string when a non-empty string was supplied, the rendering of the
\* supplied Date when a valid Date was supplied, and the time of the call when
\* the argument was omitted or was the empty string.
C3_LastReturnedFinishDecides ==
    /\ [](lastCall.op = "finish" =>
            /\ (lastCall.threw # "none") = IsInvalidDate(lastCall.arg)
            /\ (lastCall.threw = "none" => FinishSets(lastCall, trace[1].finishTimestamp)))
    /\ [][lastCall'.op = "finish" /\ lastCall'.threw # "none" => trace' = trace]_vars

\* C3 (witness): caller c2 has called finish without an argument at clock 2 on
\* an instance constructed before, and finishTimestamp is the time of that call.
C3_Witness ==
    /\ trace # <<>>
    /\ lastCall.op = "finish" /\ lastCall.caller = "c2" /\ lastCall.arg = TsUndefined
    /\ lastCall.at = 2
    /\ trace[1].finishTimestamp = Str(ToISOString(Now(2)))
    /\ trace[1].startTimestamp = Str(ToISOString(Now(0)))

\* C5 (as stated): startTimestamp, finishTimestamp once set, and createdAt
\* always hold an ISO-8601 string.
C5_TimestampsAreIso ==
    /\ trace # <<>> =>
          /\ IsIsoTimestamp(trace[1].startTimestamp.s)
          /\ (trace[1].finishTimestamp.def => IsIsoTimestamp(trace[1].finishTimestamp.s))
    /\ event # <<>> => IsIsoTimestamp(event[1].createdAt)

\* C6 (as stated): a constructor call with valid ids produces an instance whose
\* startTimestamp is the time of the call when no start timestamp was given,
\* and the supplied value (a Date rendered) when one was given.
C6_StartAsSupplied ==
    lastCall.op = "new" /\ IdsValid(lastCall) =>
        /\ trace # <<>>
        /\ (lastCall.arg.kind = "undefined" =>
                Renders(trace[1].startTimestamp.s, Now(lastCall.at)))
        /\ (lastCall.arg.kind = "string" => trace[1].startTimestamp.s = lastCall.arg.s)
        /\ (lastCall.arg.kind = "date" =>
                lastCall.arg.valid /\ Renders(trace[1].startTimestamp.s, lastCall.arg))

\* C6 (amended): a constructor call with valid ids throws (RangeError, no
\* instance) when the start timestamp is an invalid Date; otherwise it produces
\* an instance whose startTimestamp is the time of the call when the start
\* timestamp was omitted or was the empty string, the supplied string when it
\* was a non-empty string, and the rendering of the supplied Date when it was a
\* valid Date.
C6_StartAsSuppliedWhenUsable ==
    lastCall.op = "new" /\ IdsValid(lastCall) =>
        IF IsInvalidDate(lastCall.arg)
        THEN lastCall.threw = "RangeError" /\ trace = <<>>
        ELSE /\ lastCall.threw = "none"
             /\ trace # <<>>
             /\ trace[1].startTimestamp.def
             /\ (lastCall.arg.kind = "undefined" \/ (lastCall.arg.kind = "string" /\ lastCall.arg.s = <<>>)
                    => Renders(trace[1].startTimestamp.s, Now(lastCall.at)))
             /\ (lastCall.arg.kind = "string" /\ lastCall.arg.s # <<>>
                    => trace[1].startTimestamp.s = lastCall.arg.s)
             /\ (lastCall.arg.kind = "date" => Renders(trace[1].startTimestamp.s, lastCall.arg))

\* C6 (witness): an instance constructed at clock 1 from a valid Date, holding
\* that Date's rendering, which is not the time of the call.
C6_Witness ==
    /\ trace # <<>>
    /\ lastCall.op = "new" /\ lastCall.at = 1 /\ lastCall.arg = TsDate(11016, 37800123)
    /\ IsoInstant(trace[1].startTimestamp.s) = [day |-> 11016, ms |-> 37800123]

\* C8 (as stated): every instance has a non-empty service.
C8_ServiceNonEmpty == trace # <<>> => trace[1].service # <<>>

\* C8 (amended): every instance has the service string its constructor was
\* given, empty or not (the constructor does not look at it), and no later call
\* changes it.
C8_ServiceAsGiven ==
    /\ [](lastCall.op = "new" /\ IdsValid(lastCall) /\ ~IsInvalidDate(lastCall.arg) =>
            lastCall.threw = "none" /\ trace # <<>> /\ trace[1].service = lastCall.service)
    /\ [][trace # <<>> => trace'[1].service = trace[1].service]_vars

\* C8 (witness): an instance constructed with the empty service.
C8_Witness ==
    /\ trace # <<>> /\ trace[1].service = <<>>
    /\ lastCall.op = "new" /\ lastCall.service = <<>>

\* C9 (as stated): finishTimestamp is unset on a freshly constructed instance,
\* is set by nothing but a finish call, is set after any finish call, and once
\* set is never unset again.
C9_FinishOneWayAnyCall ==
    /\ [](lastCall.op = "new" /\ trace # <<>> => ~trace[1].finishTimestamp.def)
    /\ [](lastCall.op = "finish" => trace[1].finishTimestamp.def)
    /\ [][trace # <<>> /\ ~trace[1].finishTimestamp.def /\ trace'[1].finishTimestamp.def
            => lastCall'.op = "finish"]_vars
    /\ [][trace # <<>> /\ trace[1].finishTimestamp.def => trace'[1].finishTimestamp.def]_vars

\* C9 (amended): finishTimestamp is unset on a freshly constructed instance, is
\* set by nothing but a finish call, is set after every finish call that
\* returns (a call given an invalid Date throws and changes nothing), and once
\* set is never unset again.
C9_FinishOneWay ==
    /\ [](lastCall.op = "new" /\ trace # <<>> => ~trace[1].finishTimestamp.def)
    /\ [](lastCall.op = "finish" /\ lastCall.threw = "none" => trace[1].finishTimestamp.def)
    /\ [][trace # <<>> /\ ~trace[1].finishTimestamp.def /\ trace'[1].finishTimestamp.def
            => lastCall'.op = "finish" /\ lastCall'.threw = "none"]_vars
    /\ [][trace # <<>> /\ trace[1].finishTimestamp.def => trace'[1].finishTimestamp.def]_vars

\* C9 (witness): a finish call given an invalid Date has thrown on an instance
\* whose finishTimestamp an earlier call had set.
C9_Witness ==
    /\ trace # <<>> /\ trace[1].finishTimestamp.def
    /\ lastCall.op = "finish" /\ lastCall.threw = "RangeError"

\* C10 (as stated): a finish call leaves service, traceId, spanId,
\* parentSpanId, sampled, flags and startTimestamp as they were, and never
\* raises an error.
C10_FinishFrameNeverThrows ==
    /\ [](lastCall.op = "finish" => lastCall.threw = "none")
    /\ [][trace # <<>> /\ lastCall'.op = "finish" =>
            [trace'[1] EXCEPT !.finishTimestamp = NoString]
                 = [trace[1] EXCEPT !.finishTimestamp = NoString]]_vars

\* C10 (amended): a finish call leaves service, traceId, spanId, parentSpanId,
\* sampled, flags and startTimestamp as they were, and it raises an error only
\* when given an invalid Date (a RangeError), leaving finishTimestamp as it was
\* too.
C10_FinishFrame ==
    /\ [](lastCall.op = "finish" =>
            /\ lastCall.threw \in {"none", "RangeError"}
            /\ (lastCall.threw = "RangeError") = IsInvalidDate(lastCall.arg))
    /\ [][trace # <<>> /\ lastCall'.op = "finish" =>
            /\ [trace'[1] EXCEPT !.finishTimestamp = NoString]
                 = [trace[1] EXCEPT !.finishTimestamp = NoString]
            /\ (lastCall'.threw # "none" => trace' = trace)]_vars

\* C10 (witness): a finish call has set finishTimestamp on an instance that has
\* a parent span id, sampled and flags.
C10_Witness ==
    /\ trace # <<>>
    /\ lastCall.op = "finish" /\ lastCall.threw = "none"
    /\ trace[1].finishTimestamp = Str(GarbageSample)
    /\ trace[1].parentSpanId = Str(ValidParentSpanId)
    /\ trace[1].sampled = Num(1) /\ trace[1].flags = Num(0)

(***************************************************************************)
(* Claims about the id generators (checked under SpecIds).                 *)
(***************************************************************************)
\* C7: every value newTraceId returns is 32 lower-case hex characters and every
\* value newSpanId returns is 16, and the EventTraceMetadata constructor given
\* a generated id as traceId, or as spanId and parentSpanId, accepts it and
\* produces the instance holding it.
C7_GeneratedIdsAccepted ==
    /\ generated.kind = "traceId" => IsLowerHex(generated.id, 32)
    /\ generated.kind = "spanId" => IsLowerHex(generated.id, 16)
    /\ lastCall.op = "new" =>
          /\ lastCall.threw = "none"
          /\ trace # <<>>
          /\ trace[1].traceId = lastCall.traceId
          /\ trace[1].spanId = lastCall.spanId
          /\ trace[1].parentSpanId = lastCall.parentSpanId

\* C7 (witness): an instance constructed from a generated trace id whose first
\* byte is zero.
C7_Witness ==
    /\ generated.kind = "traceId"
    /\ generated.id[1] = "0" /\ generated.id[2] = "0" /\ generated.id[32] = "f"
    /\ trace # <<>> /\ trace[1].traceId = generated.id

(***************************************************************************)
(* Claims about the variants and EventMetadata (checked under SpecEvent).  *)
(***************************************************************************)
Categories == {"log", "audit", "error", "trace"}

\* The compatibility table of the data model.
LegalActions(c) ==
    CASE c = "log" -> {"info", "debug", "verbose", "perf"}
      [] c = "audit" -> {"default"}
      [] c = "error" -> {"internal", "external"}
      [] c = "trace" -> {"span"}

CategoryOfClass(cls) ==
    CASE cls = "LogEventTypeAction" -> "log"
      [] cls = "AuditEventTypeAction" -> "audit"
      [] cls = "ErrorEventTypeAction" -> "error"
      [] cls = "TraceEventTypeAction" -> "trace"

C4_LegalActionsBuild ==
    /\ lastEvent.op = "variant"
          /\ lastEvent.action \in LegalActions(CategoryOfClass(lastEvent.cls)) =>
          /\ lastEvent.outcome = "ok"
          /\ variant = <<[cls |-> lastEvent.cls, action |-> lastEvent.action]>>
          /\ getType(variant[1]) = CategoryOfClass(lastEvent.cls)
    /\ lastEvent.op \in Categories /\ lastEvent.action \in LegalActions(lastEvent.op) =>
          /\ lastEvent.outcome = "ok"
          /\ event = <<[id |-> lastEvent.id, type |-> lastEvent.op, action |-> lastEvent.action,
                        createdAt |-> lastEvent.createdAt.s, state |-> lastEvent.state,
                        responseTo |-> lastEvent.responseTo]>>
    /\ lastEvent.op = "create"
          /\ lastEvent.action \in LegalActions(CategoryOfClass(lastEvent.cls)) =>
          /\ lastEvent.outcome = "ok"
          /\ event = <<[id |-> lastEvent.id, type |-> CategoryOfClass(lastEvent.cls),
                        action |-> lastEvent.action, createdAt |-> lastEvent.createdAt.s,
                        state |-> lastEvent.state, responseTo |-> lastEvent.responseTo]>>

\* C4 (witness): EventMetadata.log with the action debug, answering e-0, has
\* produced an EventMetadata of type log and action debug.
C4_Witness ==
    /\ lastEvent.op = "log" /\ lastEvent.action = "debug"
    /\ event # <<>>
    /\ event[1].type = "log" /\ event[1].action = "debug"
    /\ event[1].responseTo = SomeId("e-0") /\ event[1].createdAt = IsoSample

====
